---- MODULE Spec2Model ----
(***************************************************************************)
(* Model of backend/server.py: the assessment / contact-request API over   *)
(* two MongoDB collections.  Request handlers that await the store are     *)
(* split at the await; everything else is one atomic step.                 *)
(***************************************************************************)
EXTENDS Integers, Sequences, FiniteSets, TLC

VARIABLES
    assessments,       \* db.assessments: stored documents, in insertion order
    contact_requests,  \* db.contact_requests: stored documents, in insertion order
    older,             \* number of further, older db.assessments documents (written by earlier runs)
    inflight,          \* the handler calls suspended at "await insert_one"
    response,          \* what the step just taken sent to its client (NoResponse if nothing)
    nextId,            \* source of fresh uuid4 values
    stats              \* history: calls begun, insert_one invocations, successful inserts,
                       \* the records create_assessment has returned

vars == <<assessments, contact_requests, older, inflight, response, nextId, stats>>

(***************************************************************************)
(* Bounds of the model                                                     *)
(***************************************************************************)
MaxCalls == 2          \* submissions that reach the handler body
MaxAnswers == 3        \* longest answer list given to the scoring function alone

(***************************************************************************)
(* Characters and strings that are compared or parsed are sequences of     *)
(* character codes.                                                        *)
(***************************************************************************)
ChPlus == 43
ChMinus == 45
ChDot == 46
ChZero == 48
ChColon == 58
ChT == 84
ChSpace == 32

Pow10(k) == IF k = 0 THEN 1
            ELSE IF k = 1 THEN 10
            ELSE IF k = 2 THEN 100
            ELSE IF k = 3 THEN 1000
            ELSE IF k = 4 THEN 10000
            ELSE IF k = 5 THEN 100000
            ELSE 1000000

\* "%0<w>d" % n
Pad(n, w) == [i \in 1..w |-> ChZero + ((n \div Pow10(w - i)) % 10)]

IsDigit(c) == c >= ChZero /\ c <= ChZero + 9

\* int(s[from..to]) for a run of digits
RECURSIVE Num(_, _, _)
Num(s, from, to) ==
    IF to < from THEN 0
    ELSE 10 * Num(s, from, to - 1) + (s[to] - ChZero)

AllDigits(s, from, to) == \A i \in from..to : IsDigit(s[i])

\* str < str as Python and MongoDB's simple binary collation order strings
StrLess(a, b) ==
    \E k \in 1..(Len(a) + 1) :
        /\ k <= Len(b)
        /\ \A j \in 1..(k - 1) : a[j] = b[j]
        /\ (k = Len(a) + 1 \/ a[k] < b[k])

(***************************************************************************)
(* datetime (aware, UTC)                                                   *)
(***************************************************************************)
DateTime(y, mo, d, h, mi, s, us) ==
    [year |-> y, month |-> mo, day |-> d, hour |-> h, minute |-> mi,
     second |-> s, microsecond |-> us]

DtKey(dt) == <<dt.year, dt.month, dt.day, dt.hour, dt.minute, dt.second, dt.microsecond>>

\* dt1 < dt2 as instants (both UTC)
DtBefore(d1, d2) ==
    \E k \in 1..7 :
        /\ \A j \in 1..(k - 1) : DtKey(d1)[j] = DtKey(d2)[j]
        /\ DtKey(d1)[k] < DtKey(d2)[k]

UtcSuffix == <<ChPlus, ChZero, ChZero, ChColon, ChZero, ChZero>>

\* IsoFormat with timespec='seconds': the fraction is never written
IsoFormatWholeSeconds(dt) ==
    Pad(dt.year, 4) \o <<ChMinus>> \o Pad(dt.month, 2) \o <<ChMinus>> \o Pad(dt.day, 2)
    \o <<ChT>>
    \o Pad(dt.hour, 2) \o <<ChColon>> \o Pad(dt.minute, 2) \o <<ChColon>> \o Pad(dt.second, 2)
    \o UtcSuffix

\* datetime.isoformat() of an aware UTC datetime:
\* YYYY-MM-DDTHH:MM:SS[.ffffff]+00:00, the fraction only when microsecond # 0
IsoFormat(dt) ==
    Pad(dt.year, 4) \o <<ChMinus>> \o Pad(dt.month, 2) \o <<ChMinus>> \o Pad(dt.day, 2)
    \o <<ChT>>
    \o Pad(dt.hour, 2) \o <<ChColon>> \o Pad(dt.minute, 2) \o <<ChColon>> \o Pad(dt.second, 2)
    \o (IF dt.microsecond # 0 THEN <<ChDot>> \o Pad(dt.microsecond, 6) ELSE <<>>)
    \o UtcSuffix

\* strings datetime.fromisoformat() accepts, among those a store can hold here
IsIsoString(s) ==
    /\ Len(s) >= 19
    /\ AllDigits(s, 1, 4) /\ s[5] = ChMinus /\ AllDigits(s, 6, 7) /\ s[8] = ChMinus
    /\ AllDigits(s, 9, 10) /\ s[11] = ChT
    /\ AllDigits(s, 12, 13) /\ s[14] = ChColon /\ AllDigits(s, 15, 16) /\ s[17] = ChColon
    /\ AllDigits(s, 18, 19)
    /\ \/ SubSeq(s, 20, Len(s)) = UtcSuffix
       \/ /\ Len(s) = 32
          /\ s[20] = ChDot
          /\ AllDigits(s, 21, 26)
          /\ SubSeq(s, 27, 32) = UtcSuffix

\* datetime.fromisoformat(s) for s accepted by it
FromIsoFormat(s) ==
    DateTime(Num(s, 1, 4), Num(s, 6, 7), Num(s, 9, 10),
             Num(s, 12, 13), Num(s, 15, 16), Num(s, 18, 19),
             IF Len(s) > 19 /\ s[20] = ChDot THEN Num(s, 21, 26) ELSE 0)

\* dt.strftime('%Y-%m-%d %H:%M:%S')
StrFTime(dt) ==
    Pad(dt.year, 4) \o <<ChMinus>> \o Pad(dt.month, 2) \o <<ChMinus>> \o Pad(dt.day, 2)
    \o <<ChSpace>>
    \o Pad(dt.hour, 2) \o <<ChColon>> \o Pad(dt.minute, 2) \o <<ChColon>> \o Pad(dt.second, 2)

\* values datetime.now(timezone.utc) returns in the model
Instants ==
    { DateTime(2025, 1, 15, 10, 59, 59, 0),
      DateTime(2025, 1, 15, 10, 59, 59, 500000),
      DateTime(2025, 1, 15, 11, 0, 0, 0) }

(***************************************************************************)
(* JSON request bodies.  A body is a function from member names to JSON    *)
(* values; a member that is missing is not in its domain.                  *)
(***************************************************************************)
NoMembers == [k \in {} |-> 0]

JStr(s) == [t |-> "str", s |-> s, n |-> 0, a |-> <<>>, o |-> NoMembers]
JInt(n) == [t |-> "int", s |-> "", n |-> n, a |-> <<>>, o |-> NoMembers]
JNull == [t |-> "null", s |-> "", n |-> 0, a |-> <<>>, o |-> NoMembers]
JArr(a) == [t |-> "array", s |-> "", n |-> 0, a |-> a, o |-> NoMembers]
JObj(o) == [t |-> "object", s |-> "", n |-> 0, a |-> <<>>, o |-> o]

Has(obj, k) == k \in DOMAIN obj

\* dict.get(k, default)
Get(obj, k, default) == IF Has(obj, k) THEN obj[k] ELSE default

Drop(obj, k) == [f \in (DOMAIN obj) \ {k} |-> obj[f]]

\* StrMember that accepts a number for a string
StrMemberLax(obj, k) == Has(obj, k) /\ obj[k].t \in {"str", "int"}

\* member k is there and is a JSON string / integer (a field declared str / int)
StrMember(obj, k) == Has(obj, k) /\ obj[k].t = "str"
IntMember(obj, k) == Has(obj, k) /\ obj[k].t = "int"

\* field declared Optional[str] = None
OptStrMember(obj, k) == Has(obj, k) => obj[k].t \in {"str", "null"}

\* class Answer
ValidAnswer(e) ==
    /\ e.t = "object"
    /\ IntMember(e.o, "question_id")
    /\ IntMember(e.o, "value")

AssessmentStrFields == {"name", "age", "gender", "date", "mobile"}

\* class AssessmentSubmission: the request body passes validation
ValidAssessmentSubmission(body) ==
    /\ \A f \in AssessmentStrFields : StrMember(body, f)
    /\ Has(body, "answers")
    /\ body["answers"].t = "array"
    /\ \A i \in 1..Len(body["answers"].a) : ValidAnswer(body["answers"].a[i])

\* the AssessmentSubmission object built from a valid body; members that are
\* not declared are ignored
ParseAssessmentSubmission(body) ==
    [name |-> body["name"].s, age |-> body["age"].s, gender |-> body["gender"].s,
     date |-> body["date"].s, mobile |-> body["mobile"].s,
     answers |-> [i \in 1..Len(body["answers"].a) |->
                     [question_id |-> body["answers"].a[i].o["question_id"].n,
                      value |-> body["answers"].a[i].o["value"].n]]]

ContactStrFields == {"name", "mobile", "message"}

\* class ContactRequestCreate: the request body passes validation
ValidContactRequestCreate(body) ==
    /\ \A f \in ContactStrFields : StrMember(body, f)
    /\ OptStrMember(body, "email")

\* None is <<>>, a string s is <<s>>
ParseContactRequestCreate(body) ==
    [name |-> body["name"].s, mobile |-> body["mobile"].s, message |-> body["message"].s,
     email |-> IF Has(body, "email") /\ body["email"].t = "str"
               THEN <<body["email"].s>> ELSE <<>>]

\* class AdminLogin
ValidAdminLogin(body) == StrMember(body, "username") /\ StrMember(body, "password")

(***************************************************************************)
(* Scoring                                                                 *)
(***************************************************************************)
\* sum(answer.value for answer in answers)
RECURSIVE SumValues(_)
SumValues(answers) ==
    IF answers = <<>> THEN 0
    ELSE answers[1].value + SumValues(Tail(answers))

\* ResultOf with the first comparison written as <
ResultOfStrict(total_score) ==
    IF total_score < 28 THEN "Ama not present"
    ELSE IF total_score <= 42 THEN "Ama slightly present"
    ELSE "Ama Present"

\* the result label of a total score
ResultOf(total_score) ==
    IF total_score <= 28 THEN "Ama not present"
    ELSE IF total_score <= 42 THEN "Ama slightly present"
    ELSE "Ama Present"

calculate_score_and_result(answers) ==
    [score |-> SumValues(answers), result |-> ResultOf(SumValues(answers))]

(***************************************************************************)
(* Admin credentials                                                       *)
(***************************************************************************)
ADMIN_USERNAME == "admin_kamch"
ADMIN_PASSWORD == "admin_kamch123"

\* CredentialsMatch with "or" for "and"
CredentialsMatchEither(username, password) ==
    username = ADMIN_USERNAME \/ password = ADMIN_PASSWORD

\* the condition of admin_login
CredentialsMatch(username, password) ==
    username = ADMIN_USERNAME /\ password = ADMIN_PASSWORD

(***************************************************************************)
(* Records and stored documents                                            *)
(***************************************************************************)
\* Assessment(name=..., ..., score=score, result=result) with the defaults of
\* id and timestamp
NewAssessment(submission, scored, id, now) ==
    [id |-> id,
     name |-> submission.name, age |-> submission.age, gender |-> submission.gender,
     date |-> submission.date, mobile |-> submission.mobile,
     answers |-> submission.answers,
     score |-> scored.score, result |-> scored.result,
     timestamp |-> now]

\* ContactRequest(name=..., mobile=..., email=..., message=...)
NewContactRequest(request, id, now) ==
    [id |-> id, name |-> request.name, mobile |-> request.mobile,
     email |-> request.email, message |-> request.message, timestamp |-> now]

\* doc = obj.model_dump(); doc['timestamp'] = doc['timestamp'].isoformat()
DumpDoc(obj) == [obj EXCEPT !.timestamp = IsoFormat(obj.timestamp)]

\* the document insert_one stores: the driver adds _id
WithObjectId(doc, oid) == [f \in (DOMAIN doc) \cup {"_id"} |-> IF f = "_id" THEN oid ELSE doc[f]]

\* InsertOne that replaces the newest document instead of adding one
InsertOneReplacing(collection, doc, oid) ==
    IF collection = <<>> THEN <<WithObjectId(doc, oid)>>
    ELSE [collection EXCEPT ![Len(collection)] = WithObjectId(doc, oid)]

\* the ObjectId the driver gives the next stored document
NextObjectId == Len(assessments) + Len(contact_requests) + 1

\* insert_one(doc) that succeeds
InsertOne(collection, doc, oid) == Append(collection, WithObjectId(doc, oid))

\* the projection {"_id": 0}
Project(doc) == Drop(doc, "_id")

(***************************************************************************)
(* find({}, {"_id": 0}).sort("timestamp", -1).to_list(10000)               *)
(***************************************************************************)
ListLimit == 10000

Min(a, b) == IF a <= b THEN a ELSE b
Max(a, b) == IF a >= b THEN a ELSE b

\* d1 sorts before d2 ascending: a document without the key sorts as null,
\* below every string; strings sort by binary comparison
KeyLess(d1, d2) ==
    IF ~Has(d2, "timestamp") THEN FALSE
    ELSE IF ~Has(d1, "timestamp") THEN TRUE
    ELSE StrLess(d1["timestamp"], d2["timestamp"])

\* InSortOrder for direction 1
InSortOrderAscending(a, b) == ~KeyLess(b, a)

\* direction -1: a may come directly before b
InSortOrder(a, b) == ~KeyLess(a, b)

Perms(n) == {f \in [1..n -> 1..n] : \A i, j \in 1..n : i # j => f[i] # f[j]}

\* the orders in which the sorted cursor may yield the documents (ties in
\* any order)
SortedDescending(docs) ==
    { [i \in 1..Len(docs) |-> docs[f[i]]] :
        f \in { g \in Perms(Len(docs)) :
                  \A i \in 1..(Len(docs) - 1) : InSortOrder(docs[g[i]], docs[g[i + 1]]) } }

Take(s, n) == SubSeq(s, 1, Min(n, Len(s)))

ProjectAll(collection) == [i \in 1..Len(collection) |-> Project(collection[i])]

\* what the query can return: the first ListLimit documents, newest first;
\* the older documents follow the modelled ones and are only counted
Find(collection, n_older) ==
    { [docs |-> Take(sorted, ListLimit),
       older |-> Min(n_older, Max(0, ListLimit - Len(sorted)))] :
        sorted \in SortedDescending(ProjectAll(collection)) }

(***************************************************************************)
(* get_all_assessments after the query                                     *)
(***************************************************************************)
AssessmentRequired == {"name", "age", "gender", "date", "mobile", "answers", "score", "result"}

\* "" when the loop and the response_model accept every document, else the
\* exception raised
ListError(docs) ==
    IF \E i \in 1..Len(docs) : ~Has(docs[i], "timestamp") \/ ~IsIsoString(docs[i]["timestamp"])
    THEN LET i == CHOOSE k \in 1..Len(docs) :
                     /\ ~Has(docs[k], "timestamp") \/ ~IsIsoString(docs[k]["timestamp"])
                     /\ \A j \in 1..(k - 1) :
                            Has(docs[j], "timestamp") /\ IsIsoString(docs[j]["timestamp"])
         IN IF ~Has(docs[i], "timestamp") THEN "KeyError" ELSE "ValueError"
    ELSE IF \E i \in 1..Len(docs) : \E f \in AssessmentRequired : ~Has(docs[i], f)
    THEN "ResponseValidationError"
    ELSE ""

\* assessment['timestamp'] = datetime.fromisoformat(assessment['timestamp'])
ListBody(docs) ==
    [i \in 1..Len(docs) |-> [docs[i] EXCEPT !["timestamp"] = FromIsoFormat(docs[i]["timestamp"])]]

(***************************************************************************)
(* export_assessments after the query                                      *)
(***************************************************************************)
Headers == <<"Date Submitted", "Name", "Age", "Gender", "Date", "Mobile", "Score", "Result">>

\* the str branch of the loop raises ValueError on a string that is not ISO
ExportError(docs) ==
    IF \E i \in 1..Len(docs) : ~IsIsoString(Get(docs[i], "timestamp", <<>>))
    THEN "ValueError"
    ELSE ""

\* ExportRow that derives the result cell again, from the score cell alone
ExportRowRecomputed(doc) ==
    << StrFTime(FromIsoFormat(Get(doc, "timestamp", <<>>))),
       Get(doc, "name", ""), Get(doc, "age", ""), Get(doc, "gender", ""),
       Get(doc, "date", ""), Get(doc, "mobile", ""),
       Get(doc, "score", ""),
       IF Get(doc, "score", 0) < 28 THEN "Ama not present" ELSE "Ama slightly present" >>

\* the row appended for one document
ExportRow(doc) ==
    << StrFTime(FromIsoFormat(Get(doc, "timestamp", <<>>))),
       Get(doc, "name", ""), Get(doc, "age", ""), Get(doc, "gender", ""),
       Get(doc, "date", ""), Get(doc, "mobile", ""),
       Get(doc, "score", ""), Get(doc, "result", "") >>

\* the sheet: the header row, then one row per document
ExportRows(docs) == <<Headers>> \o [i \in 1..Len(docs) |-> ExportRow(docs[i])]

(***************************************************************************)
(* Request bodies the clients send                                         *)
(***************************************************************************)
Extend(obj, more) ==
    [f \in (DOMAIN obj) \cup (DOMAIN more) |-> IF f \in DOMAIN more THEN more[f] ELSE obj[f]]

AnswerMember(q, v) == JObj([question_id |-> JInt(q), value |-> JInt(v)])

JAnswers(values) == JArr([i \in 1..Len(values) |-> AnswerMember(i, values[i])])

GoodAssessmentBody(values) ==
    [name |-> JStr("Test User"), age |-> JStr("18 yrs above"), gender |-> JStr("Male"),
     date |-> JStr("2025-01-15"), mobile |-> JStr("9876543210"),
     answers |-> JAnswers(values)]

\* members a client may add although the server derives them
ForgedMembers ==
    [id |-> JStr("client-id"), score |-> JInt(99), result |-> JStr("Ama Present"),
     timestamp |-> JStr("2000-01-01T00:00:00")]

ValidAssessmentBodies ==
    { GoodAssessmentBody(<<14, 14>>),
      Extend(GoodAssessmentBody(<<14, 14, 1>>), ForgedMembers) }

InvalidAssessmentBodies ==
    LET b == GoodAssessmentBody(<<14, 14>>)
    IN { [name |-> JStr("Test User")],
         [b EXCEPT !["name"] = JInt(5)],
         [b EXCEPT !["answers"] =
              JArr(<<JObj([question_id |-> JInt(1), value |-> JStr("abc")])>>)] }

AssessmentBodies == ValidAssessmentBodies \cup InvalidAssessmentBodies

GoodContactBody ==
    [name |-> JStr("Test Contact"), mobile |-> JStr("9876543210"),
     email |-> JStr("test@example.com"), message |-> JStr("This is a test contact request")]

ValidContactBodies == { GoodContactBody }

InvalidContactBodies ==
    { [name |-> JStr("Test")], [GoodContactBody EXCEPT !["mobile"] = JInt(5)] }

ContactBodies == ValidContactBodies \cup InvalidContactBodies

\* the instant at which the contact requests of the model are stamped
ContactInstants == { DateTime(2025, 1, 15, 10, 59, 59, 500000) }

Usernames == { ADMIN_USERNAME, "Admin_kamch" }
Passwords == { ADMIN_PASSWORD, "ADMIN_KAMCH123" }

LoginBodies ==
    { [username |-> JStr(u), password |-> JStr(p)] : u \in Usernames, p \in Passwords }
    \cup { [username |-> JStr(ADMIN_USERNAME), password |-> JNull] }

(***************************************************************************)
(* State                                                                   *)
(***************************************************************************)
NoResponse == [op |-> "none", status |-> 0]

NoStats == [calls |-> 0, inserts |-> 0, assessments_ok |-> 0, contacts_ok |-> 0,
            returned |-> {}]

Init ==
    /\ assessments = <<>>
    /\ contact_requests = <<>>
    /\ older = 0
    /\ inflight = {}
    /\ response = NoResponse
    /\ nextId = 1
    /\ stats = NoStats

(***************************************************************************)
(* POST /api/assessments                                                   *)
(***************************************************************************)
\* BuildAssessment that lets a score member of the body override the computed one
BuildAssessmentTrusting(body, id, now) ==
    LET submission == ParseAssessmentSubmission(body)
        scored == calculate_score_and_result(submission.answers)
    IN NewAssessment(submission,
                     IF Has(body, "score") /\ body["score"].t = "int"
                     THEN [score |-> body["score"].n, result |-> scored.result]
                     ELSE scored,
                     id, now)

\* the handler up to the await: score the answers and build the record
BuildAssessment(body, id, now) ==
    LET submission == ParseAssessmentSubmission(body)
    IN NewAssessment(submission, calculate_score_and_result(submission.answers), id, now)

\* InsertRaised with the exception swallowed: the handler returns its record
InsertRaisedSwallowed(flight) ==
    [op |-> flight.op, status |-> 200, request |-> flight.request, body |-> flight.obj]

\* the response when insert_one raised: the exception leaves the handler
InsertRaised(flight) ==
    [op |-> flight.op, status |-> 500, error |-> "StorageError", request |-> flight.request,
     call |-> flight.obj.id]

\* the response when the handler returns its record
Returned(flight) ==
    [op |-> flight.op, status |-> 200, request |-> flight.request, body |-> flight.obj]

\* the response to a body that fails validation, sent before the handler runs
Rejected(op, body) == [op |-> op, status |-> 422, request |-> body]

CreateAssessmentRejected(body) ==
    /\ ~ValidAssessmentSubmission(body)
    /\ response' = Rejected("create_assessment", body)
    /\ UNCHANGED <<assessments, contact_requests, older, inflight, nextId, stats>>

CreateAssessmentBegin(body, now) ==
    /\ stats.calls < MaxCalls
    /\ ValidAssessmentSubmission(body)
    /\ LET assessment == BuildAssessment(body, nextId, now)
       IN inflight' = inflight \cup
                        { [op |-> "create_assessment", request |-> body,
                           obj |-> assessment, doc |-> DumpDoc(assessment)] }
    /\ nextId' = nextId + 1
    /\ stats' = [stats EXCEPT !.calls = @ + 1]
    /\ response' = NoResponse
    /\ UNCHANGED <<assessments, contact_requests, older>>

\* await db.assessments.insert_one(doc) succeeds; return assessment
CreateAssessmentInsert(flight) ==
    /\ flight.op = "create_assessment"
    /\ assessments' = InsertOne(assessments, flight.doc, NextObjectId)
    /\ inflight' = inflight \ {flight}
    /\ response' = Returned(flight)
    /\ stats' = [stats EXCEPT !.inserts = @ + 1, !.assessments_ok = @ + 1,
                              !.returned = @ \cup {Returned(flight).body}]
    /\ UNCHANGED <<contact_requests, older, nextId>>

\* await db.assessments.insert_one(doc) raises
CreateAssessmentInsertFails(flight) ==
    /\ flight.op = "create_assessment"
    /\ inflight' = inflight \ {flight}
    /\ response' = InsertRaised(flight)
    /\ stats' = [stats EXCEPT !.inserts = @ + 1]
    /\ UNCHANGED <<assessments, contact_requests, older, nextId>>

(***************************************************************************)
(* POST /api/contact-requests                                              *)
(***************************************************************************)
BuildContactRequest(body, id, now) ==
    NewContactRequest(ParseContactRequestCreate(body), id, now)

CreateContactRejected(body) ==
    /\ ~ValidContactRequestCreate(body)
    /\ response' = Rejected("create_contact_request", body)
    /\ UNCHANGED <<assessments, contact_requests, older, inflight, nextId, stats>>

CreateContactBegin(body, now) ==
    /\ stats.calls < MaxCalls
    /\ ValidContactRequestCreate(body)
    /\ LET contact_req == BuildContactRequest(body, nextId, now)
       IN inflight' = inflight \cup
                        { [op |-> "create_contact_request", request |-> body,
                           obj |-> contact_req, doc |-> DumpDoc(contact_req)] }
    /\ nextId' = nextId + 1
    /\ stats' = [stats EXCEPT !.calls = @ + 1]
    /\ response' = NoResponse
    /\ UNCHANGED <<assessments, contact_requests, older>>

CreateContactInsert(flight) ==
    /\ flight.op = "create_contact_request"
    /\ contact_requests' = InsertOne(contact_requests, flight.doc, NextObjectId)
    /\ inflight' = inflight \ {flight}
    /\ response' = Returned(flight)
    /\ stats' = [stats EXCEPT !.inserts = @ + 1, !.contacts_ok = @ + 1]
    /\ UNCHANGED <<assessments, older, nextId>>

CreateContactInsertFails(flight) ==
    /\ flight.op = "create_contact_request"
    /\ inflight' = inflight \ {flight}
    /\ response' = InsertRaised(flight)
    /\ stats' = [stats EXCEPT !.inserts = @ + 1]
    /\ UNCHANGED <<assessments, contact_requests, older, nextId>>

(***************************************************************************)
(* POST /api/admin/login                                                   *)
(***************************************************************************)
\* history kept with a login response: the step directly before was a failed login
AfterFailedLogin == response.op = "admin_login" /\ response.status = 401

\* what admin_login answers to a valid AdminLogin body
LoginOutcome(username, password) ==
    IF CredentialsMatch(username, password)
    THEN [status |-> 200, success |-> TRUE, message |-> "Login successful"]
    ELSE [status |-> 401, success |-> FALSE, message |-> "Invalid credentials"]

AdminLoginRejected(body) ==
    /\ ~ValidAdminLogin(body)
    /\ response' = Rejected("admin_login", body)
    /\ UNCHANGED <<assessments, contact_requests, older, inflight, nextId, stats>>

AdminLogin(body) ==
    /\ ValidAdminLogin(body)
    /\ LET outcome == LoginOutcome(body["username"].s, body["password"].s)
       IN response' = [op |-> "admin_login", status |-> outcome.status, request |-> body,
                       success |-> outcome.success, message |-> outcome.message,
                       after_failure |-> AfterFailedLogin]
    /\ UNCHANGED <<assessments, contact_requests, older, inflight, nextId, stats>>

(***************************************************************************)
(* GET /api/admin/assessments and /api/admin/assessments/export.  The      *)
(* query is the only await; the step is taken when the query answers.      *)
(***************************************************************************)
\* AfterListLoop for a loop that writes each timestamp it has parsed back to
\* the stored document, formatted again without fraction and offset
AfterListLoopWritingBack(collection) ==
    [i \in 1..Len(collection) |->
        IF Has(collection[i], "timestamp") /\ IsIsoString(collection[i]["timestamp"])
        THEN [collection[i] EXCEPT
                 !["timestamp"] = StrFTime(FromIsoFormat(collection[i]["timestamp"]))]
        ELSE collection[i]]

\* the collection after get_all_assessments' loop: the cursor returns copies,
\* so the assignments of the loop do not reach the stored documents
AfterListLoop(collection) == collection

ListResponse(cursor) ==
    IF ListError(cursor.docs) # ""
    THEN [op |-> "get_all_assessments", status |-> 500, error |-> ListError(cursor.docs)]
    ELSE [op |-> "get_all_assessments", status |-> 200,
          body |-> ListBody(cursor.docs), older |-> cursor.older]

GetAllAssessments ==
    /\ \E cursor \in Find(assessments, older) : response' = ListResponse(cursor)
    /\ assessments' = AfterListLoop(assessments)
    /\ UNCHANGED <<contact_requests, older, inflight, nextId, stats>>

ExportResponse(cursor) ==
    IF ExportError(cursor.docs) # ""
    THEN [op |-> "export_assessments", status |-> 500, error |-> ExportError(cursor.docs)]
    ELSE [op |-> "export_assessments", status |-> 200,
          rows |-> ExportRows(cursor.docs), older_rows |-> cursor.older]

ExportAssessments ==
    /\ \E cursor \in Find(assessments, older) : response' = ExportResponse(cursor)
    /\ UNCHANGED <<assessments, contact_requests, older, inflight, nextId, stats>>

\* the query raises
QueryFails(op) ==
    /\ response' = [op |-> op, status |-> 500, error |-> "StorageError"]
    /\ UNCHANGED <<assessments, contact_requests, older, inflight, nextId, stats>>

(***************************************************************************)
(* Specification: the service started on empty collections                 *)
(***************************************************************************)
Next ==
    \/ \E body \in AssessmentBodies : CreateAssessmentRejected(body)
    \/ \E body \in AssessmentBodies, now \in Instants : CreateAssessmentBegin(body, now)
    \/ \E flight \in inflight : CreateAssessmentInsert(flight)
    \/ \E flight \in inflight : CreateAssessmentInsertFails(flight)
    \/ \E body \in ContactBodies : CreateContactRejected(body)
    \/ \E body \in ContactBodies, now \in ContactInstants : CreateContactBegin(body, now)
    \/ \E flight \in inflight : CreateContactInsert(flight)
    \/ \E flight \in inflight : CreateContactInsertFails(flight)
    \/ \E body \in LoginBodies : AdminLoginRejected(body)
    \/ \E body \in LoginBodies : AdminLogin(body)
    \/ GetAllAssessments
    \/ ExportAssessments
    \/ \E op \in {"get_all_assessments", "export_assessments"} : QueryFails(op)

Spec == Init /\ [][Next]_vars

(***************************************************************************)
(* Specification: the service started on a collection that earlier runs    *)
(* have filled up to the limit of the listing query                        *)
(***************************************************************************)
InitFull ==
    /\ assessments = <<>>
    /\ contact_requests = <<>>
    /\ older = ListLimit - 1
    /\ inflight = {}
    /\ response = NoResponse
    /\ nextId = 1
    /\ stats = NoStats

SpecFull == InitFull /\ [][Next]_vars

(***************************************************************************)
(* Specification: the service started on a collection holding a document   *)
(* that other writers left, possibly without one of the exported fields    *)
(***************************************************************************)
ExportedFields == {"timestamp", "name", "age", "gender", "date", "mobile", "score", "result"}

CompleteLegacyDoc ==
    WithObjectId(
        DumpDoc(BuildAssessment(GoodAssessmentBody(<<14, 14, 1>>), 0,
                                DateTime(2025, 1, 15, 10, 59, 59, 0))),
        0)

LegacyDocs == {CompleteLegacyDoc} \cup { Drop(CompleteLegacyDoc, f) : f \in ExportedFields }

InitLegacy ==
    /\ assessments \in { <<d>> : d \in LegacyDocs }
    /\ contact_requests = <<>>
    /\ older = 0
    /\ inflight = {}
    /\ response = NoResponse
    /\ nextId = 1
    /\ stats = NoStats

SpecLegacy == InitLegacy /\ [][Next]_vars

(***************************************************************************)
(* Specification: the scoring function alone, applied to answer lists      *)
(***************************************************************************)
ScoreValues == {-3, 0, 1, 5, 14, 21, 28}

AnswerLists ==
    UNION { [1..n -> [question_id : {1}, value : ScoreValues]] : n \in 0..MaxAnswers }

Score(answers) ==
    /\ LET scored == calculate_score_and_result(answers)
       IN response' = [op |-> "calculate_score_and_result", status |-> 0,
                       answers |-> answers, score |-> scored.score, result |-> scored.result]
    /\ UNCHANGED <<assessments, contact_requests, older, inflight, nextId, stats>>

NextScore == \E answers \in AnswerLists : Score(answers)

SpecScore == Init /\ [][NextScore]_vars

(***************************************************************************)
(* Properties                                                              *)
(***************************************************************************)
CreateOps == {"create_assessment", "create_contact_request"}
ReadOps == {"get_all_assessments", "export_assessments"}

StoresUnchanged == assessments' = assessments /\ contact_requests' = contact_requests

\* the sum of the values, taken index by index from the end
RECURSIVE SumUpTo(_, _)
SumUpTo(answers, n) == IF n = 0 THEN 0 ELSE SumUpTo(answers, n - 1) + answers[n].value

\* C1: for every answer list, the empty one and values outside 1..5 included,
\* calculate_score_and_result returns the sum of the values as the total and
\* the label of the band the total lies in: "Ama not present" up to 28,
\* "Ama slightly present" from 29 to 42, "Ama Present" from 43.
ThmC1_ScoreAndBands ==
    response.op = "calculate_score_and_result" =>
        /\ response.score = SumUpTo(response.answers, Len(response.answers))
        /\ response.score <= 28 => response.result = "Ama not present"
        /\ (response.score > 28 /\ response.score <= 42) =>
               response.result = "Ama slightly present"
        /\ response.score > 42 => response.result = "Ama Present"

\* C1 witness: three answers with values outside 1..5 that sum to the boundary 28
WitC1_Boundary28 ==
    /\ response.op = "calculate_score_and_result"
    /\ Len(response.answers) = 3
    /\ \E i \in 1..3 : response.answers[i].value < 1
    /\ response.score = 28
    /\ response.result = "Ama not present"

\* a record carries the score and the label of its own answers
Consistent(record) ==
    /\ record["score"] = SumUpTo(record["answers"], Len(record["answers"]))
    /\ record["result"] = (IF record["score"] <= 28 THEN "Ama not present"
                           ELSE IF record["score"] <= 42 THEN "Ama slightly present"
                           ELSE "Ama Present")

\* C2: every record create_assessment has stored, and the record it returns,
\* has the score and the label of its own answers, whatever members the body
\* carried; no step changes the score or the result of a stored record.
ThmC2_ScoreConsistentAndKept ==
    /\ [](/\ \A i \in 1..Len(assessments) : Consistent(assessments[i])
          /\ (response.op = "create_assessment" /\ response.status = 200) =>
                 Consistent(response.body))
    /\ [][\A i \in 1..Len(assessments) :
             /\ i <= Len(assessments')
             /\ assessments'[i]["score"] = assessments[i]["score"]
             /\ assessments'[i]["result"] = assessments[i]["result"]]_vars

\* C2 witness: a record was stored, after an earlier one, and returned for a body
\* that carried its own score, result, id and timestamp
WitC2_ForgedMembersIgnored ==
    /\ Len(assessments) = 2
    /\ response.op = "create_assessment" /\ response.status = 200
    /\ Has(response.request, "score")
    /\ response.request["score"].n # response.body.score
    /\ response.request["result"].s # response.body.result
    /\ assessments[2]["id"] = response.body.id

\* a body of AssessmentSubmission with a required member missing or of a JSON
\* type other than the declared one
MalformedAssessment(body) ==
    \/ \E f \in {"name", "age", "gender", "date", "mobile"} : ~Has(body, f) \/ body[f].t # "str"
    \/ ~Has(body, "answers")
    \/ body["answers"].t # "array"
    \/ \E i \in 1..Len(body["answers"].a) :
          LET e == body["answers"].a[i]
          IN \/ e.t # "object"
             \/ \E f \in {"question_id", "value"} : ~Has(e.o, f) \/ e.o[f].t # "int"

\* a body of ContactRequestCreate with a required member missing or of a JSON
\* type other than the declared one
MalformedContact(body) ==
    \E f \in {"name", "mobile", "message"} : ~Has(body, f) \/ body[f].t # "str"

Malformed(op, body) ==
    IF op = "create_assessment" THEN MalformedAssessment(body) ELSE MalformedContact(body)

CreatedAt(s) == { t \in Instants : IsoFormat(t) = s }

\* C4: get_all_assessments returns the records newest first: of two adjacent
\* records of the list, the first was not created before the second, the
\* creation instants being those whose ISO string create_assessment stored.
ThmC4_ListNewestFirst ==
    (response.op = "get_all_assessments" /\ response.status = 200) =>
        \A i \in 1..(Len(response.body) - 1) :
            \A k1, k2 \in 1..Len(assessments) :
                (assessments[k1]["id"] = response.body[i]["id"]
                 /\ assessments[k2]["id"] = response.body[i + 1]["id"]) =>
                    /\ CreatedAt(assessments[k1]["timestamp"]) # {}
                    /\ \A t1 \in CreatedAt(assessments[k1]["timestamp"]),
                          t2 \in CreatedAt(assessments[k2]["timestamp"]) : ~DtBefore(t1, t2)

\* C4 witness: the list holds, in this order, a record created at a fraction of
\* a second (its string has a fraction) and one created on that full second
\* (its string has none), although the later one was stored first
WitC4_FractionAfterFullSecond ==
    /\ response.op = "get_all_assessments" /\ response.status = 200
    /\ Len(response.body) = 2 /\ Len(assessments) = 2
    /\ Len(assessments[1]["timestamp"]) = 32 /\ Len(assessments[2]["timestamp"]) = 25
    /\ SubSeq(assessments[1]["timestamp"], 1, 19) = SubSeq(assessments[2]["timestamp"], 1, 19)
    /\ response.body[1]["id"] = assessments[1]["id"]
    /\ response.body[2]["id"] = assessments[2]["id"]

\* C5: a successful create_assessment adds exactly one record to assessments,
\* a successful create_contact_request exactly one to contact_requests; every
\* step leaves the records already stored in place and unchanged; so each
\* collection holds as many records as there were successful submissions to it.
ThmC5_OneRecordPerSuccess ==
    /\ [](/\ Len(assessments) = stats.assessments_ok
          /\ Len(contact_requests) = stats.contacts_ok)
    /\ [][/\ SubSeq(assessments', 1, Len(assessments)) = assessments
          /\ SubSeq(contact_requests', 1, Len(contact_requests)) = contact_requests
          /\ Len(assessments') >= Len(assessments)
          /\ Len(contact_requests') >= Len(contact_requests)
          /\ (response'.op = "create_assessment" /\ response'.status = 200) =>
                 (/\ Len(assessments') = Len(assessments) + 1
                  /\ contact_requests' = contact_requests
                  /\ Project(assessments'[Len(assessments')]) = DumpDoc(response'.body))
          /\ (response'.op = "create_contact_request" /\ response'.status = 200) =>
                 (/\ Len(contact_requests') = Len(contact_requests) + 1
                  /\ assessments' = assessments
                  /\ Project(contact_requests'[Len(contact_requests')]) = DumpDoc(response'.body))
          /\ ~(response'.op \in CreateOps /\ response'.status = 200) => StoresUnchanged]_vars

\* C5 witness: two calls overlapped: the assessment was built after the contact
\* request and stored before it
WitC5_OverlappingCalls ==
    /\ Len(assessments) = 1 /\ Len(contact_requests) = 1
    /\ assessments[1]["id"] > contact_requests[1]["id"]
    /\ assessments[1]["_id"] < contact_requests[1]["_id"]

\* C6: get_all_assessments and export_assessments are read-only: a step of
\* either, answered 200 or 500, leaves both collections exactly as they were,
\* the stored timestamp strings included.
ThmC6_ReadsLeaveStore ==
    [][response'.op \in ReadOps => (StoresUnchanged /\ older' = older)]_vars

\* C6 witness: a listing answered 200 with the one stored assessment, its
\* timestamp parsed, while contact_requests held a record too
WitC6_ListOverFilledStore ==
    /\ response.op = "get_all_assessments" /\ response.status = 200
    /\ Len(response.body) = 1
    /\ Len(assessments) = 1 /\ Len(contact_requests) = 1
    /\ response.body[1]["timestamp"].microsecond = 500000

\* the rows of an export against the collection: one header row and one row per
\* stored record, the score and result cells those of the records taken newest
\* first
RowsMatchStore ==
    /\ Len(response.rows) + response.older_rows = Len(assessments) + older + 1
    /\ response.rows[1] = Headers
    /\ \E f \in Perms(Len(assessments)) :
          /\ Len(response.rows) = Len(assessments) + 1
          /\ \A i \in 1..Len(assessments) :
                /\ response.rows[i + 1][7] = assessments[f[i]]["score"]
                /\ response.rows[i + 1][8] = assessments[f[i]]["result"]
          /\ \A i \in 1..(Len(assessments) - 1) :
                \A t1 \in CreatedAt(assessments[f[i]]["timestamp"]),
                   t2 \in CreatedAt(assessments[f[i + 1]]["timestamp"]) : ~DtBefore(t1, t2)

\* C7 as stated: for every reachable collection the export has one row per
\* stored assessment plus the header row, and the score and result cells of the
\* rows are those of the stored records, newest first.
CexC7_RowPerStoredRecord ==
    (response.op = "export_assessments" /\ response.status = 200) => RowsMatchStore

\* C7 as amended: the same, for a collection of at most ListLimit records.
ThmC7_RowPerStoredRecordWithinLimit ==
    (/\ response.op = "export_assessments" /\ response.status = 200
     /\ Len(assessments) + older <= ListLimit) => RowsMatchStore

\* C7 witness: an export of a collection holding exactly ListLimit records
WitC7_ExportAtLimit ==
    /\ response.op = "export_assessments" /\ response.status = 200
    /\ Len(assessments) + older = ListLimit
    /\ Len(assessments) >= 1
    /\ Len(response.rows) + response.older_rows = ListLimit + 1

ExportColumn(f) ==
    CASE f = "timestamp" -> 1 [] f = "name" -> 2 [] f = "age" -> 3 [] f = "gender" -> 4
      [] f = "date" -> 5 [] f = "mobile" -> 6 [] f = "score" -> 7 [] f = "result" -> 8

\* C8 as stated: an export over a record that lacks an exported field completes
\* (only a failing query makes it fail), and some row has the empty string in
\* the column of each field a stored record lacks.
CexC8_MissingFieldRendersEmpty ==
    (response.op = "export_assessments"
     /\ ~(response.status = 500 /\ response.error = "StorageError")) =>
        /\ response.status = 200
        /\ \A i \in 1..Len(assessments) :
              \A f \in ExportedFields :
                  ~Has(assessments[i], f) =>
                      \E r \in 2..Len(response.rows) :
                          ToString(response.rows[r][ExportColumn(f)]) = ToString("")

AssessmentDocFields ==
    {"_id", "id", "name", "age", "gender", "date", "mobile", "answers", "score", "result",
     "timestamp"}
ContactDocFields == {"_id", "id", "name", "mobile", "email", "message", "timestamp"}

CollectionOf(op) == IF op = "create_assessment" THEN assessments ELSE contact_requests

\* C9: a submission whose insert failed is answered with an error and has no
\* record in its collection; a submission answered 200 has its whole record in
\* the collection; no stored record is partial; insert_one is invoked at most
\* once per call.
ThmC9_InsertFailureSurfaced ==
    /\ (response.op \in CreateOps /\ response.status = 200) =>
           \E i \in 1..Len(CollectionOf(response.op)) :
               Project(CollectionOf(response.op)[i]) = DumpDoc(response.body)
    /\ (response.op \in CreateOps /\ response.status = 500) =>
           \A i \in 1..Len(CollectionOf(response.op)) :
               CollectionOf(response.op)[i]["id"] # response.call
    /\ \A i \in 1..Len(assessments) : DOMAIN assessments[i] = AssessmentDocFields
    /\ \A i \in 1..Len(contact_requests) : DOMAIN contact_requests[i] = ContactDocFields
    /\ \A flight \in inflight :
           \A i \in 1..Len(CollectionOf(flight.op)) :
               CollectionOf(flight.op)[i]["id"] # flight.obj.id
    /\ stats.inserts <= stats.calls
    /\ stats.inserts + Cardinality(inflight) = stats.calls

\* C9 witness: an assessment submission was answered 500 after its insert
\* failed, while the collection held the record of another call
WitC9_FailedInsertAnswered500 ==
    /\ response.op = "create_assessment" /\ response.status = 500
    /\ response.error = "StorageError"
    /\ Len(assessments) = 1
    /\ stats.inserts = 2

\* C10: admin_login answers success exactly when username and password both
\* equal the fixed pair character for character, and 401 for every other pair,
\* whether or not a failed login came directly before; a login step leaves both
\* collections as they were.
ThmC10_LoginExactMatch ==
    /\ []((response.op = "admin_login" /\ response.status # 422) =>
             /\ response.success <=>
                    (/\ response.request["username"].s = "admin_kamch"
                     /\ response.request["password"].s = "admin_kamch123")
             /\ response.success => response.status = 200
             /\ ~response.success => response.status = 401)
    /\ [][response'.op = "admin_login" => StoresUnchanged]_vars

\* C10 witness: a login with the fixed pair succeeded directly after a failed
\* one, over collections that hold records
WitC10_SuccessAfterFailure ==
    /\ response.op = "admin_login" /\ response.status = 200 /\ response.success
    /\ response.after_failure
    /\ Len(assessments) >= 1

\* the fields of a record other than its timestamp
RecordFields == {"id", "name", "age", "gender", "date", "mobile", "answers", "score", "result"}

\* listed is the record returned, read back: the same fields and a timestamp
\* denoting the same UTC instant (both are UTC datetimes)
SameRecord(listed, returned) ==
    /\ \A f \in RecordFields : Has(listed, f) /\ listed[f] = returned[f]
    /\ Has(listed, "timestamp")
    /\ DtKey(listed["timestamp"]) = DtKey(returned["timestamp"])

\* C11: once create_assessment has returned a record R, every list that
\* get_all_assessments returns afterwards, while the collection holds at most
\* ListLimit records, has a record with the id, name, age, gender, date,
\* mobile, answers, score and result of R and a timestamp denoting the same UTC
\* instant as R's: storing the timestamp as an ISO string and parsing it back
\* loses nothing.
ThmC11_RoundTripThroughStore ==
    (/\ response.op = "get_all_assessments" /\ response.status = 200
     /\ Len(assessments) + older <= ListLimit) =>
        \A R \in stats.returned :
            \E i \in 1..Len(response.body) : SameRecord(response.body[i], R)

\* C11 witness: a list over a collection holding exactly ListLimit records has
\* read back a returned record created at a fraction of a second, whose
\* request body also carried members that are not stored
WitC11_FractionReadBackAtLimit ==
    /\ response.op = "get_all_assessments" /\ response.status = 200
    /\ Len(assessments) + older = ListLimit
    /\ \E R \in stats.returned :
          /\ R.timestamp.microsecond = 500000
          /\ Len(R.answers) = 3
          /\ \E i \in 1..Len(response.body) : SameRecord(response.body[i], R)

====
